---- MODULE Spec2Model ----
(***************************************************************************)
(* State-machine model of the disk-backed response cache shared by         *)
(* PaperCollector (src/utils/paper_collector.py) and LLMAnalyzer           *)
(* (src/utils/llm_analyzer.py), and of the public operations that use it.  *)
(***************************************************************************)
EXTENDS Integers, Sequences, FiniteSets, TLC

VARIABLES
    slot,     \* the cache slot a run exercises (a collector key or an analyzer path)
    now,      \* wall clock, in hours (datetime.now())
    cdisk,    \* collector cache directory: cache key -> file
    adisk,    \* analyzer cache directory: cache path -> file
    clast,    \* history: per collector key, the last completed _save_to_cache
    alast,    \* history: per analyzer path, the last completed _save_to_cache
    ret,      \* observation of the last operation: what it returned or raised
    batch,    \* the running batch_analyze call: its locals and loop position
    put,      \* two processes on one slot: a _save_to_cache between its file
              \* writes, a _load_from_cache between its reads, and what it got
    fp,       \* history: cache keys computed so far, and the instance computing
    page,     \* the running pagination loop of search_semantic_scholar
    cite      \* the running collect_citation_network call: its locals

\* the calls that run step by step
procs == <<put, fp, page, cite>>

vars == <<slot, now, cdisk, adisk, clast, alast, ret, batch, put, fp, page, cite>>

----------------------------------------------------------------------------
(* Bounds of the model *)

\* the clock stops here in the cache-level specification (hours)
MaxClock == 3
\* largest max_age_hours passed to a direct _load_from_cache call
MaxAgeArg == 2
\* an interrupted write leaves a prefix of at most this many tokens
MaxCut == 1
\* the clock of the operation-level specification advances in steps of
\* ClockStep hours and stops at MaxNow
ClockStep == 12
MaxNow == 36

Min(a, b) == IF a <= b THEN a ELSE b

----------------------------------------------------------------------------
(* Python values: None, str, list of str, dict of str -> str.             *)
(* One record shape for all of them, so that any two can be compared.      *)

PyNone == [t |-> "none", vs |-> <<>>, kv |-> <<>>]
PyStr(s) == [t |-> "str", vs |-> <<s>>, kv |-> <<>>]
PyList(items) == [t |-> "list", vs |-> items, kv |-> <<>>]
PyDict(pairs) == [t |-> "dict", vs |-> <<>>, kv |-> pairs]

\* bool(v): None, "", [] and {} are falsy
Truthy(v) ==
    CASE v.t = "none" -> FALSE
      [] v.t = "str"  -> v.vs # <<"">>
      [] v.t = "list" -> v.vs # <<>>
      [] OTHER        -> v.kv # <<>>

\* 'k in d' for the pairs of a dict
HasKey(pairs, k) == \E i \in 1..Len(pairs) : pairs[i][1] = k

\* d[k] = v on the pairs of a dict: replaces in place, or appends
DictSet(pairs, k, v) ==
    IF HasKey(pairs, k)
    THEN [i \in 1..Len(pairs) |-> IF pairs[i][1] = k THEN <<k, v>> ELSE pairs[i]]
    ELSE Append(pairs, <<k, v>>)

\* d.get(k, default)
DictGet(pairs, k, default) ==
    IF HasKey(pairs, k)
    THEN pairs[CHOOSE i \in 1..Len(pairs) : pairs[i][1] = k][2]
    ELSE default

----------------------------------------------------------------------------
(* JSON text, as a sequence of tokens.  Token kinds: "p" punctuation,      *)
(* "s" a string literal, "lit" the literal null, "ws" whitespace written   *)
(* by indent=2, "junk" text that is no JSON token, "bad" a byte sequence   *)
(* that is not valid UTF-8.                                                *)

Tok(kind, s) == [k |-> kind, s |-> s]
P(s) == Tok("p", s)
WS == Tok("ws", "\n")

RECURSIVE DumpItems(_)
DumpItems(items) ==
    IF Len(items) = 0 THEN <<>>
    ELSE IF Len(items) = 1 THEN <<WS, Tok("s", items[1])>>
    ELSE <<WS, Tok("s", items[1]), P(",")>> \o DumpItems(Tail(items))

RECURSIVE DumpPairs(_)
DumpPairs(pairs) ==
    IF Len(pairs) = 0 THEN <<>>
    ELSE LET one == <<WS, Tok("s", pairs[1][1]), P(":"), Tok("s", pairs[1][2])>>
         IN  IF Len(pairs) = 1 THEN one
             ELSE one \o <<P(",")>> \o DumpPairs(Tail(pairs))

\* json.dump(data, f, indent=2)
JsonDump(v) ==
    CASE v.t = "none" -> <<Tok("lit", "null")>>
      [] v.t = "str"  -> <<Tok("s", v.vs[1])>>
      [] v.t = "list" ->
            IF v.vs = <<>> THEN <<P("["), P("]")>>
            ELSE <<P("[")>> \o DumpItems(v.vs) \o <<WS, P("]")>>
      [] OTHER ->
            IF v.kv = <<>> THEN <<P("{"), P("}")>>
            ELSE <<P("{")>> \o DumpPairs(v.kv) \o <<WS, P("}")>>

NotWs(tok) == tok.k # "ws"

\* the comma-separated strings between [ and ]
ItemsOk(inner) ==
    LET n == Len(inner)
    IN  n = 0 \/ ( /\ n % 2 = 1
                   /\ \A i \in 1..n :
                        IF i % 2 = 1 THEN inner[i].k = "s" ELSE inner[i] = P(",") )

ItemsOf(inner) == [i \in 1..((Len(inner) + 1) \div 2) |-> inner[2 * i - 1].s]

\* the comma-separated "key": "value" members between { and }
PairsOk(inner) ==
    LET n == Len(inner)
    IN  n = 0 \/ ( /\ n % 4 = 3
                   /\ \A i \in 1..n :
                        CASE i % 4 = 1 -> inner[i].k = "s"
                          [] i % 4 = 2 -> inner[i] = P(":")
                          [] i % 4 = 3 -> inner[i].k = "s"
                          [] OTHER     -> inner[i] = P(",") )

\* a repeated key keeps its last value, as Python's dict does
RECURSIVE PairsOf(_, _)
PairsOf(inner, acc) ==
    IF Len(inner) < 3 THEN acc
    ELSE PairsOf(SubSeq(inner, 5, Len(inner)), DictSet(acc, inner[1].s, inner[3].s))

Parsed(v) == [exc |-> "none", val |-> v]
Raised(e) == [exc |-> e, val |-> PyNone]

\* json.loads(text): the value, or JSONDecodeError
JsonLoads(text) ==
    LET t == SelectSeq(text, NotWs)
        n == Len(t)
        inner == SubSeq(t, 2, n - 1)
    IN  IF n = 0 THEN Raised("JSONDecodeError")
        ELSE IF n = 1 /\ t[1] = Tok("lit", "null") THEN Parsed(PyNone)
        ELSE IF n = 1 /\ t[1].k = "s" THEN Parsed(PyStr(t[1].s))
        ELSE IF n >= 2 /\ t[1] = P("[") /\ t[n] = P("]") /\ ItemsOk(inner)
             THEN Parsed(PyList(ItemsOf(inner)))
        ELSE IF n >= 2 /\ t[1] = P("{") /\ t[n] = P("}") /\ PairsOk(inner)
             THEN Parsed(PyDict(PairsOf(inner, <<>>)))
        ELSE Raised("JSONDecodeError")

\* json.load(f) on a file opened with encoding='utf-8': f.read() decodes the
\* whole file first, and raises UnicodeDecodeError on an undecodable byte
Undecodable(data) == \E i \in 1..Len(data) : data[i].k = "bad"

JsonLoad(data) ==
    IF Undecodable(data) THEN Raised("UnicodeDecodeError") ELSE JsonLoads(data)

----------------------------------------------------------------------------
(* Files of a cache directory *)

Absent == [exists |-> FALSE, mtime |-> 0, data |-> <<>>]
FileOf(t, data) == [exists |-> TRUE, mtime |-> t, data |-> data]

\* outcomes of the system calls of a read: all succeed, or stat() fails, or
\* open() or the read() of json.load fails, each with OSError
ReadIO == {"ok", "stat", "open"}

\* outcomes of a write: success, open() fails (file untouched), or the
\* write is cut after the truncation, leaving a prefix of cut tokens
WriteOk == [k |-> "ok", cut |-> 0]
WriteIO == {WriteOk, [k |-> "open", cut |-> 0]}
              \cup {[k |-> "write", cut |-> j] : j \in 0..MaxCut}

\* open(cache_file, 'w') followed by json.dump: the file after the call
WriteTrunc(f, text, t, w) ==
    CASE w.k = "ok"   -> FileOf(t, text)
      [] w.k = "open" -> f
      [] OTHER        -> FileOf(t, SubSeq(text, 1, Min(w.cut, Len(text) - 1)))

\* the same with mode 'a': the old text is kept and the new text follows it
WriteAppend(f, text, t, w) ==
    CASE w.k = "ok"   -> FileOf(t, f.data \o text)
      [] w.k = "open" -> f
      [] OTHER        -> FileOf(t, f.data \o SubSeq(text, 1, Min(w.cut, Len(text) - 1)))

\* the same with the modification time left as it was
WriteKeepTime(f, text, t, w) == WriteTrunc(f, text, f.mtime, w)

\* the same with the file removed when the write fails
WriteOrRemove(f, text, t, w) ==
    IF w.k = "ok" THEN WriteTrunc(f, text, t, w) ELSE Absent

WriteFile(f, text, t, w) == WriteTrunc(f, text, t, w)

WriteExc(w) == IF w.k = "ok" THEN "none" ELSE "OSError"

----------------------------------------------------------------------------
(* PaperCollector: the cache *)

\* hours=max_age_hours default of _load_from_cache
DefaultMaxAge == 24

\* _get_cache_key: md5 of "{source}:{query}"; the digest is taken to be
\* injective, so the key string stands for it
CacheKey(query, source) == source \o ":" \o query

ExpiredLax(age, maxAge) == age >= maxAge

\* datetime.now() - file_time > timedelta(hours=max_age_hours)
Expired(age, maxAge) == age > maxAge

\* the same without the except clause
CLoadUncaught(disk, key, maxAge, t, io) ==
    LET f == disk[key]
    IN  IF ~f.exists THEN Parsed(PyNone)
        ELSE IF io = "stat" THEN Raised("OSError")
        ELSE IF Expired(t - f.mtime, maxAge) THEN Parsed(PyNone)
        ELSE IF io = "open" THEN Raised("OSError")
        ELSE JsonLoad(f.data)

\* PaperCollector._load_from_cache: the value returned (PyNone is None), or
\* the exception that leaves the method
CLoad(disk, key, maxAge, t, io) ==
    LET f == disk[key]
    IN  IF ~f.exists THEN Parsed(PyNone)
        ELSE IF io = "stat" THEN Raised("OSError")
        ELSE IF Expired(t - f.mtime, maxAge) THEN Parsed(PyNone)
        ELSE IF io = "open" THEN Raised("OSError")
        ELSE LET r == JsonLoad(f.data)
             IN  IF r.exc = "JSONDecodeError" THEN Parsed(PyNone) ELSE r

\* PaperCollector._save_to_cache: the directory after the call
CSave(disk, key, data, t, w) ==
    [disk EXCEPT ![key] = WriteFile(disk[key], JsonDump(data), t, w)]

----------------------------------------------------------------------------
(* LLMAnalyzer: the cache *)

\* _get_cache_path: cache_dir / "{paper_id}_{analysis_type}.json"
CachePath(paper_id, analysis_type) == paper_id \o "_" \o analysis_type \o ".json"

\* LLMAnalyzer._load_from_cache; the file's age is never looked at
ALoad(disk, path, io) ==
    LET f == disk[path]
    IN  IF ~f.exists THEN Parsed(PyNone)
        ELSE IF io = "open" THEN Raised("OSError")
        ELSE LET r == JsonLoad(f.data)
             IN  IF r.exc = "JSONDecodeError" THEN Parsed(PyNone) ELSE r

\* LLMAnalyzer._save_to_cache; st_mtime is never read back, so it is not kept
ASave(disk, path, data, w) ==
    [disk EXCEPT ![path] = WriteFile(disk[path], JsonDump(data), 0, w)]

----------------------------------------------------------------------------
(* Logical requests of the collector and their cache keys *)

\* the field list search_semantic_scholar uses when fields is None
DefaultFields ==
    <<"paperId", "title", "abstract", "year", "authors", "citationCount",
      "referenceCount", "publicationDate", "venue", "url", "citations",
      "references">>

\* ','.join(fields)
RECURSIVE Join(_)
Join(fields) ==
    IF Len(fields) = 0 THEN ""
    ELSE IF Len(fields) = 1 THEN fields[1]
    ELSE fields[1] \o "," \o Join(Tail(fields))

\* a call of a public collector operation with its arguments; q is the
\* query or the paper id, n the limit or max_results, nofields says that
\* fields was None
SSReq(q, n, fields) ==
    [op |-> "search_semantic_scholar", q |-> q, n |-> n, nofields |-> FALSE,
     fields |-> fields, src |-> "semantic_scholar"]
SSReqDefault(q, n) ==
    [op |-> "search_semantic_scholar", q |-> q, n |-> n, nofields |-> TRUE,
     fields |-> <<>>, src |-> "semantic_scholar"]
AXReq(q, n) ==
    [op |-> "search_arxiv", q |-> q, n |-> n, nofields |-> FALSE,
     fields |-> <<>>, src |-> "arxiv"]
PDReq(paper_id, source) ==
    [op |-> "get_paper_details", q |-> paper_id, n |-> 0, nofields |-> FALSE,
     fields |-> <<>>, src |-> source]
NoReq ==
    [op |-> "none", q |-> "", n |-> 0, nofields |-> FALSE, fields |-> <<>>,
     src |-> ""]

FieldsOf(r) == IF r.nofields THEN DefaultFields ELSE r.fields

\* a key built from the fields argument as passed, None left as it is
KeyOfRaw(r) ==
    CASE r.op = "search_semantic_scholar" ->
            CacheKey(r.q \o ":" \o ToString(r.n) \o ":" \o
                        (IF r.nofields THEN "None" ELSE Join(r.fields)),
                     "semantic_scholar")
      [] r.op = "search_arxiv" ->
            CacheKey(r.q \o ":" \o ToString(r.n), "arxiv")
      [] OTHER ->
            CacheKey("details:" \o r.q, r.src)

\* the cache_key each operation computes for its arguments
KeyOf(r) ==
    CASE r.op = "search_semantic_scholar" ->
            CacheKey(r.q \o ":" \o ToString(r.n) \o ":" \o Join(FieldsOf(r)),
                     "semantic_scholar")
      [] r.op = "search_arxiv" ->
            CacheKey(r.q \o ":" \o ToString(r.n), "arxiv")
      [] OTHER ->
            CacheKey("details:" \o r.q, r.src)

\* the calls the model makes
Requests ==
    { SSReqDefault("q", 1),
      SSReq("details:x", 2, <<"f">>),
      PDReq("x:2:f", "semantic_scholar"),
      PDReq("p1", "semantic_scholar"),
      AXReq("q", 2),
      AXReq("details:q", 1),
      PDReq("q:1", "arxiv") }

CKeys == {KeyOf(r) : r \in Requests}

----------------------------------------------------------------------------
(* Papers handed to the analyzer and their cache paths *)

PaperA == << <<"paperId", "p1">>, <<"title", "A">> >>
PaperB == << <<"title", "B">> >>
PaperC == << <<"title", "C">> >>
Papers == {PaperA, PaperB, PaperC}

AnalysisTypes == {"comprehensive", "mirofish"}

\* paper.get('paperId', paper.get('id', 'unknown'))
PaperId(paper) == DictGet(paper, "paperId", DictGet(paper, "id", "unknown"))

APaths == {CachePath(PaperId(p), k) : p \in Papers, k \in AnalysisTypes}

----------------------------------------------------------------------------
(* Observations and history *)

\* no completed _save_to_cache on a slot yet (or its text was replaced from
\* outside since)
NoPut == [valid |-> FALSE, val |-> PyNone, n |-> 0, req |-> NoReq, paper |-> <<>>]

\* what the last operation did, as its caller and the network saw it
NoRet ==
    [op |-> "init", key |-> "", io |-> "ok", H |-> 0, val |-> PyNone,
     exc |-> "none", req |-> NoReq, paper |-> <<>>, hit |-> FALSE,
     nreq |-> 0, fetched |-> PyNone, fetchok |-> FALSE, failed |-> FALSE,
     retryable |-> FALSE, attempts |-> 0, wexc |-> "none",
     preexists |-> FALSE, stale |-> FALSE, usecache |-> FALSE,
     first |-> [valid |-> FALSE, val |-> PyNone]]

\* a completed put; the puts of a slot are counted up to cap
PutOf(old, v, r, paper, cap) ==
    [valid |-> TRUE, val |-> v, n |-> Min(old.n + 1, cap), req |-> r, paper |-> paper]

\* the history of a slot after a write with outcome w
AfterWrite(old, v, r, paper, w, cap) ==
    CASE w.k = "ok"   -> PutOf(old, v, r, paper, cap)
      [] w.k = "open" -> old
      [] OTHER        -> [NoPut EXCEPT !.n = old.n]

NoBatch == [pc |-> "idle", papers |-> <<>>, kind |-> "", delay |-> 0, i |-> 0,
            results |-> <<>>]

\* what a get running beside a put came back with: the value or exception,
\* whether the file changed between its reads (torn), and, as they were when
\* it finished, the payload being put (new), the payload of the completed
\* put before it (old) and whether the text of new was all written (whole)
NoRead == [done |-> FALSE, val |-> PyNone, exc |-> "none", torn |-> FALSE,
           new |-> PyNone, old |-> PyNone, whole |-> FALSE]

\* no write and no read in progress.  Writer: the text to write, the number
\* of its tokens written (pos), the payload (val), the payload of the last
\* completed put (prev), the puts begun (n).  Reader: the offset reached
\* (off), the text read (buf), the file as it was at the first read (snap)
NoWrite == [pc |-> "idle", key |-> "", text |-> <<>>, pos |-> 0,
            val |-> PyNone, prev |-> PyNone, n |-> 0,
            rpc |-> "idle", off |-> 0, buf |-> <<>>, snap |-> <<>>,
            got |-> NoRead]

\* a key computation: the request, the key, and the time and the instance
\* configuration at which it was made
NoKey == [valid |-> FALSE, req |-> NoReq, key |-> "", t |-> 0,
          cfg |-> [cache_dir |-> "", api_key |-> ""]]

\* no key computed yet by the instance PaperCollector() / LLMAnalyzer() with
\* the default cache_dir; first and last are the first and the latest
\* computation
NoKeys == [cfg |-> [cache_dir |-> "./cache", api_key |-> ""],
           first |-> NoKey, last |-> NoKey]

\* no search running
NoPages ==
    [pc |-> "idle", limit |-> 0, collected |-> 0, offset |-> 0, nreq |-> 0,
     req |-> [limit |-> 0, offset |-> 0], before |-> 0, over |-> FALSE,
     out |-> "none"]

\* no network collection running
NoCite ==
    [pc |-> "idle", seeds |-> <<>>, depth |-> 0, to_visit |-> <<>>,
     visited |-> {}, papers |-> {}, citations |-> <<>>,
     calls |-> <<>>, depths |-> <<>>, graph |-> [id \in {} |-> <<>>],
     allok |-> TRUE, out |-> "none",
     metadata |-> [total_papers |-> 0, total_citations |-> 0]]

----------------------------------------------------------------------------
(* The cache by itself: direct calls of _save_to_cache and _load_from_cache *)
(* of both classes, the clock, and text put into a slot from outside.      *)
(* An operation reads and writes the file of its own key only, so the      *)
(* slots evolve independently of one another: a run exercises one slot,    *)
(* chosen at the start, and every slot is covered by some run.             *)

\* payloads have at most MaxLen items
MaxLen == 2

Corpus == <<"a", "b", "c", "d">>
Members == << <<"k1", "v1">>, <<"k2", "v2">>, <<"k3", "v3">>, <<"k4", "v4">> >>

\* what a caller may hand to _save_to_cache: a list or a mapping
Payloads ==
    {PyList(SubSeq(Corpus, 1, n)) : n \in 0..MaxLen}
        \cup {PyDict(SubSeq(Members, 1, n)) : n \in 0..MaxLen}

\* texts that are not a serialized payload: a cut document, text that is no
\* JSON, bytes that are no UTF-8
Malformed ==
    { <<P("["), WS, Tok("s", "a")>>,
      <<Tok("junk", "<html>")>>,
      <<Tok("bad", "0xff")>> }

\* the slots the cache-level specification exercises
CacheKeys == {KeyOf(AXReq("q", 2))}
CachePaths == {CachePath("p1", "comprehensive")}

InitCommon ==
    /\ cdisk = [k \in CKeys |-> Absent]
    /\ adisk = [p \in APaths |-> Absent]
    /\ clast = [k \in CKeys |-> NoPut]
    /\ alast = [p \in APaths |-> NoPut]
    /\ ret = NoRet
    /\ batch = NoBatch
    /\ put = NoWrite
    /\ fp = NoKeys
    /\ page = NoPages
    /\ cite = NoCite

InitCache == slot \in CacheKeys \cup CachePaths /\ now = 0 /\ InitCommon

\* collector._save_to_cache(key, payload)
CachePut(key, payload, w) ==
    /\ slot = key
    /\ cdisk' = CSave(cdisk, key, payload, now, w)
    /\ clast' = [clast EXCEPT ![key] = AfterWrite(@, payload, NoReq, <<>>, w, 2)]
    /\ ret' = [NoRet EXCEPT !.op = "cput", !.key = key, !.exc = WriteExc(w)]
    /\ UNCHANGED <<slot, now, adisk, alast, batch, procs>>

\* collector._load_from_cache(key, max_age_hours=H)
CacheGet(key, H, io) ==
    /\ slot = key
    /\ LET r == CLoad(cdisk, key, H, now, io)
       IN  ret' = [NoRet EXCEPT !.op = "cget", !.key = key, !.io = io, !.H = H,
                                !.val = r.val, !.exc = r.exc]
    /\ UNCHANGED <<slot, now, cdisk, adisk, clast, alast, batch, procs>>

\* analyzer._save_to_cache(paper_id, analysis_type, payload)
AnalyzerPut(path, payload, w) ==
    /\ slot = path
    /\ adisk' = ASave(adisk, path, payload, w)
    /\ alast' = [alast EXCEPT ![path] = AfterWrite(@, payload, NoReq, <<>>, w, 2)]
    /\ ret' = [NoRet EXCEPT !.op = "aput", !.key = path, !.exc = WriteExc(w)]
    /\ UNCHANGED <<slot, now, cdisk, clast, batch, procs>>

\* analyzer._load_from_cache(paper_id, analysis_type)
AnalyzerGet(path, io) ==
    /\ slot = path
    /\ LET r == ALoad(adisk, path, io)
       IN  ret' = [NoRet EXCEPT !.op = "aget", !.key = path, !.io = io,
                                !.val = r.val, !.exc = r.exc]
    /\ UNCHANGED <<slot, now, cdisk, adisk, clast, alast, batch, procs>>

\* bytes written into a collector slot by something other than the cache
ForeignCWrite(key, text) ==
    /\ slot = key
    /\ cdisk' = [cdisk EXCEPT ![key] = FileOf(now, text)]
    /\ clast' = [clast EXCEPT ![key] = [NoPut EXCEPT !.n = clast[key].n]]
    /\ ret' = [NoRet EXCEPT !.op = "foreign", !.key = key]
    /\ UNCHANGED <<slot, now, adisk, alast, batch, procs>>

\* bytes written into an analyzer slot by something other than the cache
ForeignAWrite(path, text) ==
    /\ slot = path
    /\ adisk' = [adisk EXCEPT ![path] = FileOf(0, text)]
    /\ alast' = [alast EXCEPT ![path] = [NoPut EXCEPT !.n = alast[path].n]]
    /\ ret' = [NoRet EXCEPT !.op = "foreign", !.key = path]
    /\ UNCHANGED <<slot, now, cdisk, clast, batch, procs>>

\* an hour passes
TickHour ==
    /\ now < MaxClock
    /\ now' = now + 1
    /\ ret' = [NoRet EXCEPT !.op = "tick"]
    /\ UNCHANGED <<slot, cdisk, adisk, clast, alast, batch, procs>>

NextCache ==
    \/ \E k \in CacheKeys, p \in Payloads, w \in WriteIO : CachePut(k, p, w)
    \/ \E k \in CacheKeys, H \in 0..MaxAgeArg, io \in ReadIO : CacheGet(k, H, io)
    \/ \E k \in CachePaths, p \in Payloads, w \in WriteIO : AnalyzerPut(k, p, w)
    \/ \E k \in CachePaths, io \in ReadIO : AnalyzerGet(k, io)
    \/ \E k \in CacheKeys, text \in Malformed : ForeignCWrite(k, text)
    \/ \E k \in CachePaths, text \in Malformed : ForeignAWrite(k, text)
    \/ TickHour

SpecCache == InitCache /\ [][NextCache]_vars

----------------------------------------------------------------------------
(* Claims about the cache by itself (checked under SpecCache) *)

\* the last operation was a collector _load_from_cache whose system calls
\* all succeeded, on a slot whose text is that of a completed put
CGetOfPut ==
    /\ ret.op = "cget"
    /\ ret.io = "ok"
    /\ clast[ret.key].valid

AGetOfPut ==
    /\ ret.op = "aget"
    /\ ret.io = "ok"
    /\ alast[ret.key].valid

\* C2: collector _load_from_cache(key, max_age_hours=H) on a well-formed
\* entry stored at time T returns the stored payload when now - T <= H
\* (also at exactly T + H) and returns None when now - T > H.
C2_ExpiryBoundary ==
    CGetOfPut =>
        LET age == now - cdisk[ret.key].mtime
        IN  /\ ret.exc = "none"
            /\ age <= ret.H => ret.val = clast[ret.key].val
            /\ age > ret.H => ret.val = PyNone

\* a hit at exactly T + H, with H > 0 and a non-empty payload
C2_Witness ==
    /\ CGetOfPut
    /\ ret.H >= 1
    /\ now - cdisk[ret.key].mtime = ret.H
    /\ Truthy(ret.val)
    /\ ret.val = clast[ret.key].val

\* C3: with no expiry in effect, a get of a fingerprint returns exactly the
\* payload of the most recent put to it, in both classes and for every
\* payload (the empty list included); the slot holds one document, the one
\* that loads back to that payload.
C3_RoundTrip ==
    /\ (CGetOfPut /\ ~Expired(now - cdisk[ret.key].mtime, ret.H))
          => (ret.exc = "none" /\ ret.val = clast[ret.key].val)
    /\ AGetOfPut => (ret.exc = "none" /\ ret.val = alast[ret.key].val)
    /\ \A k \in CKeys :
          clast[k].valid => JsonLoad(cdisk[k].data) = Parsed(clast[k].val)
    /\ \A q \in APaths :
          alast[q].valid => JsonLoad(adisk[q].data) = Parsed(alast[q].val)

\* the analyzer's get returns the empty list that replaced an earlier payload
C3_Witness ==
    /\ AGetOfPut
    /\ alast[ret.key].n = 2
    /\ alast[ret.key].val = PyList(<<>>)
    /\ ret.val = PyList(<<>>)
    /\ adisk[ret.key].data = <<P("["), P("]")>>

\* the text of a slot is not a serialized payload
MalformedText(data) == JsonLoad(data).exc # "none"

\* C4: in both classes a get on a slot that holds malformed contents
\* returns None and does not raise.
C4_MalformedIsMiss ==
    /\ ( /\ ret.op = "cget"
          /\ ret.io = "ok"
          /\ cdisk[ret.key].exists
          /\ MalformedText(cdisk[ret.key].data) )
          => (ret.exc = "none" /\ ret.val = PyNone)
    /\ ( /\ ret.op = "aget"
          /\ ret.io = "ok"
          /\ adisk[ret.key].exists
          /\ MalformedText(adisk[ret.key].data) )
          => (ret.exc = "none" /\ ret.val = PyNone)

\* every file of both cache directories is still there after the step
FilesKept ==
    /\ \A k \in CKeys : cdisk[k].exists => cdisk'[k].exists
    /\ \A q \in APaths : adisk[q].exists => adisk'[q].exists

\* C13: no step removes a cache file, and a step that is not a put (a get
\* that hits, misses on an expired or a corrupt entry or fails, or time
\* passing) leaves the text and the time of every file as they were
C13_NoDeletion ==
    [][ /\ FilesKept
        /\ ret'.op \notin {"cput", "aput", "foreign"}
              => (cdisk' = cdisk /\ adisk' = adisk) ]_vars

\* a get has just missed on an expired entry, whose payload is still on disk
C13_Witness ==
    /\ CGetOfPut
    /\ now - cdisk[ret.key].mtime > ret.H
    /\ ret.val = PyNone
    /\ Truthy(clast[ret.key].val)
    /\ JsonLoad(cdisk[ret.key].data) = Parsed(clast[ret.key].val)

----------------------------------------------------------------------------
(* PaperCollector: transport *)

\* Retry(total=5, ...) mounted on self.session by _create_session
RetryTotal == 5
\* max_retries of the adapter of a plain requests.Session()
PlainRetries == 0

\* what the remote end does with a request: answers it; fails the first
\* fails attempts with an error Retry retries (a status of status_forcelist,
\* a timeout, a refused connection) and answers the next; or answers with a
\* status that is never retried (404)
NetOk == [kind |-> "ok", fails |-> 0]
NetOutcomes ==
    { NetOk,
      [kind |-> "retry", fails |-> 1],
      [kind |-> "retry", fails |-> RetryTotal + 1],
      [kind |-> "fatal", fails |-> 1] }

\* session.get(...) followed by raise_for_status() on a session whose adapter
\* retries retries times: whether a response came back, and the attempts made
Send(retries, o) ==
    CASE o.kind = "ok"    -> [ok |-> TRUE, attempts |-> 1, retryable |-> FALSE]
      [] o.kind = "fatal" -> [ok |-> FALSE, attempts |-> 1, retryable |-> FALSE]
      [] OTHER            -> [ok |-> o.fails <= retries,
                              attempts |-> Min(o.fails, retries) + 1,
                              retryable |-> TRUE]

\* the retries of the session each operation sends its requests on:
\* search_semantic_scholar opens a plain requests.Session(), search_arxiv and
\* get_paper_details use self.session
SessionRetries(op) ==
    IF op = "search_semantic_scholar" THEN PlainRetries ELSE RetryTotal

\* pages hold at most MaxPage records
MaxPage == 2

\* a page request of the search: the transport outcome and, on success, the
\* number of records in 'data'
PageOutcomes ==
    {[net |-> NetOk, count |-> c] : c \in 0..MaxPage}
        \cup {[net |-> o, count |-> 0] : o \in NetOutcomes \ {NetOk}}

\* the while loop of search_semantic_scholar from all_papers = all on; pages
\* are the outcomes of the page requests to come, used is how many of them
\* the loop consumed (each one a request sent)
RECURSIVE SSPages(_, _, _, _)
SSPages(limit, all, pages, used) ==
    LET end == [all |-> all, nreq |-> used, failed |-> FALSE,
                retryable |-> FALSE, attempts |-> 0]
    IN  IF Len(all) >= limit \/ used >= Len(pages) THEN end
        ELSE LET pg == pages[used + 1]
                 tr == Send(SessionRetries("search_semantic_scholar"), pg.net)
                 offset == Len(all)
                 papers == SubSeq(Corpus, offset + 1,
                                  Min(offset + pg.count, Len(Corpus)))
             IN  IF ~tr.ok
                 THEN [end EXCEPT !.nreq = used + 1, !.failed = TRUE,
                                  !.retryable = tr.retryable,
                                  !.attempts = tr.attempts]
                 ELSE IF papers = <<>> THEN [end EXCEPT !.nreq = used + 1]
                 ELSE SSPages(limit, all \o papers, pages, used + 1)

\* the page outcomes a search with this limit can meet: one for every
\* request the loop sends and none beyond (the loop sends at most limit
\* requests, as every page that keeps it going adds a record)
PageSeqs(limit) ==
    UNION { { pages \in [1..k -> PageOutcomes] :
                SSPages(limit, <<>>, pages, 0).nreq = k
                /\ (k < limit =>
                      \A more \in PageOutcomes :
                        SSPages(limit, <<>>, Append(pages, more), 0).nreq = k) }
            : k \in 1..limit }

\* the same, tabulated for the limits of the calls made
PageSeqsOf == [n \in {r.n : r \in Requests} |-> PageSeqs(n)]

----------------------------------------------------------------------------
(* PaperCollector: the public operations *)

IsHitTruthy(cached) == Truthy(cached)

\* 'if cached_data is not None'
IsHit(cached) == cached # PyNone

\* what is noted of every call before it acts: its request and key, whether
\* the slot held a file and whether that file was older than DefaultMaxAge,
\* and (first) whether the slot holds, within
\* DefaultMaxAge, the result an earlier call of the same request stored
Called(r, io) ==
    LET f == cdisk[KeyOf(r)]
        prev == clast[KeyOf(r)]
        mine == prev.valid /\ prev.req = r /\ now - f.mtime <= DefaultMaxAge
    IN  [NoRet EXCEPT !.op = r.op, !.req = r, !.key = KeyOf(r), !.io = io,
                      !.preexists = f.exists,
                      !.stale = (f.exists /\ now - f.mtime > DefaultMaxAge),
                      !.first = IF mine THEN [valid |-> TRUE, val |-> prev.val]
                                ELSE [valid |-> FALSE, val |-> PyNone]]

\* the call ends in the cache lookup: the exception of _load_from_cache
\* leaves the operation, or the cached value is returned
EndsInLookup(r, io, c) ==
    /\ ret' = IF c.exc # "none"
              THEN [Called(r, io) EXCEPT !.exc = c.exc]
              ELSE [Called(r, io) EXCEPT !.val = c.val, !.hit = TRUE]
    /\ UNCHANGED <<slot, now, cdisk, adisk, clast, alast, batch, procs>>

\* a system call can only fail on a file that is there: without one,
\* _load_from_cache returns after exists()
CanFail(r, io) == io = "ok" \/ cdisk[KeyOf(r)].exists

Lookup(r, io) == CLoad(cdisk, KeyOf(r), DefaultMaxAge, now, io)

Misses(c) == c.exc = "none" /\ ~IsHit(c.val)

\* search_semantic_scholar(query, limit, fields)
SearchSemanticScholar(r, io) ==
    /\ slot = KeyOf(r)
    /\ r.op = "search_semantic_scholar"
    /\ CanFail(r, io)
    /\ LET c == Lookup(r, io)
       IN  IF ~Misses(c) THEN EndsInLookup(r, io, c)
           ELSE \E pages \in PageSeqsOf[r.n], w \in WriteIO :
                LET lp == SSPages(r.n, <<>>, pages, 0)
                    all_papers == PyList(lp.all)
                IN  \* _save_to_cache is called outside any try
                    /\ cdisk' = CSave(cdisk, KeyOf(r), all_papers, now, w)
                    /\ clast' = [clast EXCEPT
                                   ![KeyOf(r)] = AfterWrite(@, all_papers, r, <<>>, w, 1)]
                    /\ ret' = [Called(r, io) EXCEPT
                                   !.val = IF w.k = "ok" THEN all_papers ELSE PyNone,
                                   !.exc = WriteExc(w),
                                   !.nreq = lp.nreq,
                                   !.fetched = all_papers,
                                   !.fetchok = ~lp.failed,
                                   !.failed = lp.failed,
                                   !.retryable = lp.retryable,
                                   !.attempts = lp.attempts,
                                   !.wexc = WriteExc(w)]
                    /\ UNCHANGED <<slot, now, adisk, alast, batch, procs>>

\* the arXiv feed of a response: count entries, or a document that
\* ET.fromstring or the entry fields' .text.strip() reject
FeedOutcomes(n) ==
    {[ok |-> TRUE, count |-> c] : c \in 0..n} \cup {[ok |-> FALSE, count |-> 0]}

\* the outcomes of the steps a call does not get to are left at their first
\* value: no feed is read after a failed request, no file is written after
\* a rejected feed
Decisive(sent, feed, w) ==
    /\ ~sent => feed = [ok |-> TRUE, count |-> 0]
    /\ (~sent \/ ~feed.ok) => w = WriteOk

\* search_arxiv(query, max_results)
SearchArxiv(r, io) ==
    /\ slot = KeyOf(r)
    /\ r.op = "search_arxiv"
    /\ CanFail(r, io)
    /\ LET c == Lookup(r, io)
       IN  IF ~Misses(c) THEN EndsInLookup(r, io, c)
           ELSE \E net \in NetOutcomes, feed \in FeedOutcomes(r.n), w \in WriteIO :
                LET tr == Send(SessionRetries(r.op), net)
                    papers == PyList(SubSeq(Corpus, 1, feed.count))
                    base == [Called(r, io) EXCEPT !.nreq = 1]
                IN  /\ Decisive(tr.ok, feed, w)
                    /\ IF ~tr.ok
                       THEN \* except Exception: return []
                            /\ ret' = [base EXCEPT !.val = PyList(<<>>),
                                                   !.failed = TRUE,
                                                   !.retryable = tr.retryable,
                                                   !.attempts = tr.attempts]
                            /\ UNCHANGED <<slot, now, cdisk, adisk, clast, alast, batch, procs>>
                       ELSE IF ~feed.ok
                       THEN /\ ret' = [base EXCEPT !.val = PyList(<<>>)]
                            /\ UNCHANGED <<slot, now, cdisk, adisk, clast, alast, batch, procs>>
                       ELSE \* _save_to_cache is inside the try: its OSError is
                            \* caught by 'except Exception' and [] is returned
                            /\ cdisk' = CSave(cdisk, KeyOf(r), papers, now, w)
                            /\ clast' = [clast EXCEPT
                                           ![KeyOf(r)] = AfterWrite(@, papers, r, <<>>, w, 1)]
                            /\ ret' = [base EXCEPT
                                           !.val = IF w.k = "ok" THEN papers
                                                   ELSE PyList(<<>>),
                                           !.fetched = papers,
                                           !.fetchok = TRUE,
                                           !.wexc = WriteExc(w)]
                            /\ UNCHANGED <<slot, now, adisk, alast, batch, procs>>

\* the record the paper endpoint answers with
PaperRecord(paper_id) == PyDict(<< <<"paperId", paper_id>>, <<"title", "T">> >>)

\* get_paper_details(paper_id, source)
GetPaperDetails(r, io) ==
    /\ slot = KeyOf(r)
    /\ r.op = "get_paper_details"
    /\ CanFail(r, io)
    /\ LET c == Lookup(r, io)
       IN  IF ~Misses(c) THEN EndsInLookup(r, io, c)
           ELSE IF r.src # "semantic_scholar"
           THEN /\ ret' = Called(r, io)
                /\ UNCHANGED <<slot, now, cdisk, adisk, clast, alast, batch, procs>>
           ELSE \E net \in NetOutcomes, w \in WriteIO :
                LET tr == Send(SessionRetries(r.op), net)
                    paper == PaperRecord(r.q)
                    base == [Called(r, io) EXCEPT !.nreq = 1]
                IN  /\ Decisive(tr.ok, [ok |-> TRUE, count |-> 0], w)
                    /\ IF ~tr.ok
                       THEN \* except RequestException: return None
                            /\ ret' = [base EXCEPT !.failed = TRUE,
                                                   !.retryable = tr.retryable,
                                                   !.attempts = tr.attempts]
                            /\ UNCHANGED <<slot, now, cdisk, adisk, clast, alast, batch, procs>>
                       ELSE \* the OSError of _save_to_cache is no
                            \* RequestException: it leaves the operation
                            /\ cdisk' = CSave(cdisk, KeyOf(r), paper, now, w)
                            /\ clast' = [clast EXCEPT
                                           ![KeyOf(r)] = AfterWrite(@, paper, r, <<>>, w, 1)]
                            /\ ret' = [base EXCEPT
                                           !.val = IF w.k = "ok" THEN paper ELSE PyNone,
                                           !.exc = WriteExc(w),
                                           !.fetched = paper,
                                           !.fetchok = TRUE,
                                           !.wexc = WriteExc(w)]
                            /\ UNCHANGED <<slot, now, adisk, alast, batch, procs>>

\* ClockStep hours pass
TickStep ==
    /\ now + ClockStep <= MaxNow
    /\ now' = now + ClockStep
    /\ ret' = [NoRet EXCEPT !.op = "tick"]
    /\ UNCHANGED <<slot, cdisk, adisk, clast, alast, batch, procs>>

Init == slot \in CKeys /\ now = 0 /\ InitCommon

Next ==
    \/ \E r \in Requests, io \in ReadIO : SearchSemanticScholar(r, io)
    \/ \E r \in Requests, io \in ReadIO : SearchArxiv(r, io)
    \/ \E r \in Requests, io \in ReadIO : GetPaperDetails(r, io)
    \/ TickStep

Spec == Init /\ [][Next]_vars

----------------------------------------------------------------------------
(* PaperCollector: properties of the public operations *)

CollectorOps == {"search_semantic_scholar", "search_arxiv", "get_paper_details"}

\* C1: a call made while the slot holds, within max_age, the result an
\* earlier call with the same parameters stored, and whose read of the entry
\* succeeds, sends no transport request and returns that result
C1_SecondCallIsHit ==
    (ret.op \in CollectorOps /\ ret.first.valid /\ ret.io = "ok")
        => /\ ret.exc = "none"
           /\ ret.hit
           /\ ret.nreq = 0
           /\ ret.val = ret.first.val

\* a repeated call of each operation answered from the cache, one of them
\* with the empty result list; seen here: a repeated search returning the two
\* papers its first call fetched
C1_Witness ==
    /\ ret.op = "search_semantic_scholar"
    /\ ret.first.valid
    /\ ret.hit
    /\ ret.nreq = 0
    /\ ret.val = PyList(<<"a", "b">>)

\* C5: a call that finds the entry of its request present but unreadable
\* (stat or open fails) raises nothing and goes on as on a miss
C5_UnreadableIsMiss ==
    (ret.op \in CollectorOps /\ ret.preexists /\ ret.io # "ok")
        => (ret.exc = "none" /\ ~ret.hit)

\* C6: a call whose remote request succeeded and whose cache write failed
\* returns what it fetched and raises nothing
C6_WriteFailureUnseen ==
    (ret.op \in CollectorOps /\ ret.fetchok /\ ret.wexc # "none")
        => (ret.exc = "none" /\ ret.val = ret.fetched)

\* C7: a call answered from the cache is answered with the payload its own
\* request stored, two different requests never having the same key
C7_OwnPayloadOnly ==
    (ret.op \in CollectorOps /\ ret.hit /\ clast[ret.key].valid)
        => clast[ret.key].req = ret.req

\* C10: a transport request that failed with a retryable error was attempted
\* once and retried RetryTotal times before the call reported the failure
C10_RetriedToCeiling ==
    (ret.op \in CollectorOps /\ ret.failed /\ ret.retryable)
        => ret.attempts = RetryTotal + 1

\* the operation has a remote endpoint for this request: get_paper_details
\* sends a request for source "semantic_scholar" only
HasEndpoint(r) == r.op # "get_paper_details" \/ r.src = "semantic_scholar"

\* C12: a call that finds its entry older than max_age does not return it
\* and performs the remote call; and after a call whose remote request and
\* cache write succeeded, the entry carries the time of the write and loads
\* back to exactly the result returned
C12_StaleThenFresh ==
    /\ (ret.op \in CollectorOps /\ ret.stale /\ ret.io # "stat")
          => /\ ~ret.hit
             /\ HasEndpoint(ret.req) => ret.nreq >= 1
    /\ (ret.op \in CollectorOps /\ ret.fetchok /\ ret.wexc = "none")
          => /\ ret.exc = "none"
             /\ ret.val = ret.fetched
             /\ cdisk[ret.key].exists
             /\ cdisk[ret.key].mtime = now
             /\ ~Expired(now - cdisk[ret.key].mtime, DefaultMaxAge)
             /\ JsonLoad(cdisk[ret.key].data) = Parsed(ret.val)

\* search_arxiv found a stale entry, fetched anew and stored what it returned
C12_Witness ==
    /\ ret.op = "search_arxiv"
    /\ ret.stale
    /\ ret.fetchok
    /\ ret.wexc = "none"
    /\ Truthy(ret.val)
    /\ cdisk[ret.key].mtime = now
    /\ now > DefaultMaxAge

\* C16: a collector operation whose remote request fails leaves every cache
\* file as it was before the operation
C16_FailedCallWritesNothing ==
    [][ (ret'.op \in CollectorOps /\ ret'.failed) => cdisk' = cdisk ]_vars

----------------------------------------------------------------------------
(* LLMAnalyzer: the language model and the parsing of its answer *)

\* a markdown code fence; its three backquotes are written ''' here
Fence(s) == Tok("fence", s)

ObjText == <<P("{"), Tok("s", "summary"), P(":"), Tok("s", "s"), P("}")>>

\* what _call_openai gives: it raises (the API's exception is logged and
\* re-raised), or it returns the text of the completion: a JSON object, the
\* same in a json fence, a JSON list, or prose
LLMOutcomes ==
    { [exc |-> "APIError", text |-> <<>>],
      [exc |-> "none", text |-> ObjText],
      [exc |-> "none", text |-> <<Fence("'''json"), WS>> \o ObjText \o <<WS, Fence("'''")>>],
      [exc |-> "none", text |-> <<P("["), Tok("s", "a"), P("]")>>],
      [exc |-> "none", text |-> <<Tok("junk", "Sorry")>>] }

\* str.strip()
RECURSIVE LStrip(_)
LStrip(text) ==
    IF text # <<>> /\ Head(text) = WS THEN LStrip(Tail(text)) ELSE text

RECURSIVE RStrip(_)
RStrip(text) ==
    IF text # <<>> /\ text[Len(text)] = WS
    THEN RStrip(SubSeq(text, 1, Len(text) - 1)) ELSE text

Strip(text) == LStrip(RStrip(text))

\* the removal of markdown code blocks before json.loads
StripFences(response) ==
    LET r1 == Strip(response)
        \* if response.startswith(the json fence): response = response[7:]
        r2 == IF r1 # <<>> /\ Head(r1) = Fence("'''json") THEN Tail(r1) ELSE r1
        \* if response.startswith(a fence): response = response[3:]
        r3 == IF r2 # <<>> /\ Head(r2) = Fence("'''") THEN Tail(r2) ELSE r2
        \* if response.endswith(a fence): response = response[:-3]
        r4 == IF r3 # <<>> /\ r3[Len(r3)] = Fence("'''")
              THEN SubSeq(r3, 1, Len(r3) - 1) ELSE r3
    IN  Strip(r4)

\* the characters of a text
RECURSIVE TextOf(_)
TextOf(text) == IF text = <<>> THEN "" ELSE Head(text).s \o TextOf(Tail(text))

\* time.strftime('%Y-%m-%d %H:%M:%S')
TimeStr(t) == ToString(t)

\* the 'error' text of the payload returned for an answer that is no JSON
ParseError(kind) ==
    IF kind = "comprehensive" THEN "Failed to parse analysis"
    ELSE "Failed to parse integration points"

ErrorPayload(msg) == PyDict(<< <<"error", msg>> >>)

\* 'if cached:'
IsCached(cached) == Truthy(cached)

\* analyze_paper (kind "comprehensive") and
\* extract_mirofish_integration_points (kind "mirofish"), which differ in the
\* prompt and the error text only: disk and hist are the cache directory and
\* its history after the call, val the value returned, exc the exception that
\* leaves the call, hit whether the cached value was returned, calls the
\* number of _call_openai calls, wexc the exception of _save_to_cache
\* pairs stamped with the paper id only
StampIdOnly(pairs, paper_id, t) == DictSet(pairs, "paper_id", paper_id)

\* analysis['paper_id'] = paper_id; analysis['analyzed_at'] = time.strftime(...)
Stamp(pairs, paper_id, t) ==
    DictSet(DictSet(pairs, "paper_id", paper_id), "analyzed_at", TimeStr(t))

Analyze(disk, hist, kind, paper, use_cache, t, io, llm, w) ==
    LET paper_id == PaperId(paper)
        path == CachePath(paper_id, kind)
        c == IF use_cache THEN ALoad(disk, path, io) ELSE Parsed(PyNone)
        end == [disk |-> disk, hist |-> hist, val |-> PyNone, exc |-> "none",
                hit |-> FALSE, calls |-> 0, wexc |-> "none"]
        text == StripFences(llm.text)
        j == JsonLoads(text)
        analysis == PyDict(Stamp(j.val.kv, paper_id, t))
    IN  IF c.exc # "none" THEN [end EXCEPT !.exc = c.exc]
        ELSE IF use_cache /\ IsCached(c.val) THEN [end EXCEPT !.val = c.val, !.hit = TRUE]
        ELSE IF llm.exc # "none"
             THEN \* except Exception: return {'error': str(e)}
                  [end EXCEPT !.val = ErrorPayload(llm.exc), !.calls = 1]
        ELSE IF j.exc # "none"
             THEN \* except json.JSONDecodeError
                  [end EXCEPT !.calls = 1,
                              !.val = PyDict(<< <<"error", ParseError(kind)>>,
                                                <<"raw_response", TextOf(text)>> >>)]
        ELSE IF j.val.t # "dict"
             THEN \* analysis['paper_id'] = ... raises TypeError
                  [end EXCEPT !.val = ErrorPayload("TypeError"), !.calls = 1]
        ELSE IF ~use_cache THEN [end EXCEPT !.val = analysis, !.calls = 1]
        ELSE \* _save_to_cache is inside the try: its OSError is caught by
             \* 'except Exception'
             [end EXCEPT !.disk = ASave(disk, path, analysis, w),
                         !.hist = [hist EXCEPT
                                     ![path] = AfterWrite(@, analysis, NoReq, paper, w, 1)],
                         !.val = IF w.k = "ok" THEN analysis
                                 ELSE ErrorPayload("OSError"),
                         !.calls = 1,
                         !.wexc = WriteExc(w)]

----------------------------------------------------------------------------
(* LLMAnalyzer: analyze_paper and extract_mirofish_integration_points *)

AnalyzerOps == {"analyze_paper", "extract_mirofish_integration_points"}

OpOfKind(kind) ==
    IF kind = "comprehensive" THEN "analyze_paper"
    ELSE "extract_mirofish_integration_points"

\* what is noted of a call before it acts: its paper and path, whether the
\* slot held a file, and (first) whether that file parses, and to what
ACalled(kind, paper, use_cache, io) ==
    LET path == CachePath(PaperId(paper), kind)
        f == adisk[path]
        j == JsonLoad(f.data)
        there == f.exists /\ j.exc = "none"
    IN  [NoRet EXCEPT !.op = OpOfKind(kind), !.key = path, !.paper = paper,
                      !.io = io, !.usecache = use_cache,
                      !.preexists = f.exists,
                      !.first = IF there THEN [valid |-> TRUE, val |-> j.val]
                                ELSE [valid |-> FALSE, val |-> PyNone]]

\* the outcomes a call can meet, none being drawn for a step the call does
\* not get to: open() can fail on a file that is there only
ReadsFor(disk, kind, paper, use_cache) ==
    IF use_cache /\ disk[CachePath(PaperId(paper), kind)].exists
    THEN {"ok", "open"} ELSE {"ok"}

Unasked == [exc |-> "APIError", text |-> <<>>]

\* the model is called after a miss only
AnswersFor(disk, kind, paper, use_cache, io) ==
    LET a == Analyze(disk, [q \in APaths |-> NoPut], kind, paper, use_cache, 0,
                     io, Unasked, WriteOk)
    IN  IF a.calls = 1 THEN LLMOutcomes ELSE {Unasked}

\* the file is written when use_cache is set and the answer is a JSON object
WritesFor(use_cache, llm) ==
    LET j == JsonLoads(StripFences(llm.text))
    IN  IF use_cache /\ llm.exc = "none" /\ j.exc = "none" /\ j.val.t = "dict"
        THEN WriteIO ELSE {WriteOk}

\* one call of either operation, as the caller and the model's API see it
AnalyzerCall(kind, paper, use_cache, io, llm, w) ==
    \E a \in {Analyze(adisk, alast, kind, paper, use_cache, now, io, llm, w)} :
        /\ adisk' = a.disk
        /\ alast' = a.hist
        /\ ret' = [ACalled(kind, paper, use_cache, io) EXCEPT
                       !.val = a.val, !.exc = a.exc, !.hit = a.hit,
                       !.nreq = a.calls, !.wexc = a.wexc,
                       !.fetchok = (a.calls = 1 /\ WritesFor(TRUE, llm) = WriteIO)]
        /\ UNCHANGED <<slot, now, cdisk, clast, batch, procs>>

\* analyze_paper(paper, use_cache)
AnalyzePaper(paper, use_cache) ==
    /\ slot = CachePath(PaperId(paper), "comprehensive")
    /\ \E io \in ReadsFor(adisk, "comprehensive", paper, use_cache) :
       \E llm \in AnswersFor(adisk, "comprehensive", paper, use_cache, io) :
       \E w \in WritesFor(use_cache, llm) :
          AnalyzerCall("comprehensive", paper, use_cache, io, llm, w)

\* extract_mirofish_integration_points(paper, use_cache)
ExtractMirofishIntegrationPoints(paper, use_cache) ==
    /\ slot = CachePath(PaperId(paper), "mirofish")
    /\ \E io \in ReadsFor(adisk, "mirofish", paper, use_cache) :
       \E llm \in AnswersFor(adisk, "mirofish", paper, use_cache, io) :
       \E w \in WritesFor(use_cache, llm) :
          AnalyzerCall("mirofish", paper, use_cache, io, llm, w)

\* summarize_findings(analyses): the value returned.  Every exception of the
\* try block, json.JSONDecodeError included, ends in {'error': str(e)}; the
\* parsed document is returned as it is, whatever its type
Summarize(llm) ==
    LET j == JsonLoads(StripFences(llm.text))
    IN  IF llm.exc # "none" THEN ErrorPayload(llm.exc)
        ELSE IF j.exc # "none" THEN ErrorPayload(j.exc)
        ELSE j.val

\* summarize_findings(analyses)
SummarizeFindings ==
    \E llm \in LLMOutcomes :
        /\ ret' = [NoRet EXCEPT !.op = "summarize_findings", !.nreq = 1,
                                !.val = Summarize(llm)]
        /\ UNCHANGED <<slot, now, cdisk, adisk, clast, alast, batch, procs>>

\* files found in the analysis cache directory that the analyzer did not
\* write: an empty JSON object, an object of another tool, text that is no
\* JSON
ForeignTexts ==
    { JsonDump(PyDict(<<>>)),
      JsonDump(PyDict(<< <<"k1", "v1">> >>)),
      <<Tok("junk", "<html>")>> }

InitAnalyzer == slot \in APaths /\ now = 0 /\ InitCommon

NextAnalyzer ==
    \/ \E paper \in Papers, use_cache \in BOOLEAN : AnalyzePaper(paper, use_cache)
    \/ \E paper \in Papers, use_cache \in BOOLEAN :
          ExtractMirofishIntegrationPoints(paper, use_cache)
    \/ \E path \in APaths, text \in ForeignTexts : ForeignAWrite(path, text)
    \/ SummarizeFindings
    \/ TickStep

SpecAnalyzer == InitAnalyzer /\ [][NextAnalyzer]_vars

\* C8: a call with use_cache set that finds an entry that exists and parses,
\* and reads it without a system error, returns the stored payload, whatever
\* it is and whatever the time, and calls no language model
C8_NeverStale ==
    (ret.op \in AnalyzerOps /\ ret.usecache /\ ret.io = "ok" /\ ret.first.valid)
        => /\ ret.exc = "none"
           /\ ret.hit
           /\ ret.nreq = 0
           /\ ret.val = ret.first.val

\* C17: a call of the analyzer that asked the model and got an API error or
\* an answer that is no JSON object leaves the cache files as they were; a
\* call with use_cache unset leaves them as they were too, is never a hit and
\* always asks the model; and a file the analyzer wrote in full is a JSON
\* object that carries the paper's id as paper_id and the time as analyzed_at
C17_NoFailureCached ==
    [][ ret'.op \in AnalyzerOps =>
          /\ (ret'.nreq = 1 /\ ~ret'.fetchok) => adisk' = adisk
          /\ ~ret'.usecache => (adisk' = adisk /\ ~ret'.hit /\ ret'.nreq = 1)
          /\ (adisk' # adisk /\ ret'.wexc = "none") =>
                \E j \in {JsonLoad(adisk'[ret'.key].data)} :
                    /\ j.exc = "none"
                    /\ j.val.t = "dict"
                    /\ DictGet(j.val.kv, "paper_id", "") = PaperId(ret'.paper)
                    /\ HasKey(j.val.kv, "paper_id")
                    /\ DictGet(j.val.kv, "analyzed_at", "") = TimeStr(now)
                    /\ HasKey(j.val.kv, "analyzed_at") ]_vars

\* a caching call over an entry that is there but empty asked the model, got
\* no JSON object, returned an 'error' payload and the entry is as it was
C17_Witness ==
    /\ ret.op \in AnalyzerOps
    /\ ret.usecache
    /\ ret.preexists
    /\ ret.nreq = 1
    /\ ~ret.fetchok
    /\ HasKey(ret.val.kv, "error")
    /\ adisk[ret.key].exists
    /\ JsonLoad(adisk[ret.key].data) = Parsed(PyDict(<<>>))

\* the answers of the model that hold the JSON object, bare or in a fence
ObjectAnswers ==
    {llm \in LLMOutcomes : \E i \in 1..Len(llm.text) : llm.text[i] = P("{")}

\* C11: whatever the language model answers, analyze_paper,
\* extract_mirofish_integration_points and summarize_findings raise nothing
\* and return a mapping, which is the parsed answer or has an 'error' field;
\* a JSON object in a code fence parses as the bare object does
C11_NoRaiseOnModelOutput ==
    /\ (ret.op \in AnalyzerOps \cup {"summarize_findings"} /\ ret.nreq = 1)
          => /\ ret.exc = "none"
             /\ ret.val.t = "dict"
             /\ HasKey(ret.val.kv, "error") \/ HasKey(ret.val.kv, "summary")
    /\ \A llm \in ObjectAnswers :
          JsonLoads(StripFences(llm.text)) = JsonLoads(ObjText)

----------------------------------------------------------------------------
(* LLMAnalyzer.batch_analyze, one loop iteration a step *)

\* a batch holds at most MaxBatch papers
MaxBatch == 2

BatchInputs == UNION {[1..n -> Papers] : n \in 0..MaxBatch}

\* the delay argument: time.sleep raises ValueError for a negative one
Delays == {-1, 0, 1}

\* the payload appended by 'except Exception as e'
BatchError(paper, e) ==
    PyDict(<< <<"paper_id", PaperId(paper)>>, <<"error", e>> >>)

\* batch_analyze(papers, analysis_type, delay) is called: results = []
BatchStart(papers, kind, delay) ==
    /\ batch.pc = "idle"
    /\ batch' = [pc |-> "loop", papers |-> papers, kind |-> kind,
                 delay |-> delay, i |-> 0, results |-> <<>>]
    /\ UNCHANGED <<slot, now, cdisk, adisk, clast, alast, ret, procs>>

\* one iteration of the for loop, for the paper at position batch.i + 1
BatchItem ==
    /\ batch.pc = "loop"
    /\ batch.i < Len(batch.papers)
    /\ LET i == batch.i + 1
           total == Len(batch.papers)
           paper == batch.papers[i]
       IN  \E io \in ReadsFor(adisk, batch.kind, paper, TRUE) :
           \E llm \in AnswersFor(adisk, batch.kind, paper, TRUE, io) :
           \E w \in WritesFor(TRUE, llm) :
           \E a \in {Analyze(adisk, alast, batch.kind, paper, TRUE, now, io, llm, w)} :
              /\ adisk' = a.disk
              /\ alast' = a.hist
              /\ batch' = [batch EXCEPT
                    !.i = i,
                    !.results =
                        IF a.exc # "none"
                        THEN \* the call raised: the handler appends
                             Append(@, BatchError(paper, a.exc))
                        ELSE IF i < total /\ batch.delay < 0
                        THEN \* results.append(result), then time.sleep raises
                             \* inside the try: the handler appends as well
                             @ \o <<a.val, BatchError(paper, "ValueError")>>
                        ELSE Append(@, a.val)]
    /\ UNCHANGED <<slot, now, cdisk, clast, ret, procs>>

\* return results
BatchReturn ==
    /\ batch.pc = "loop"
    /\ batch.i = Len(batch.papers)
    /\ batch' = [batch EXCEPT !.pc = "done"]
    /\ UNCHANGED <<slot, now, cdisk, adisk, clast, alast, ret, procs>>

\* a batch works on the slots of all its papers
InitBatch == slot = "*" /\ now = 0 /\ InitCommon

NextBatch ==
    \/ \E papers \in BatchInputs, kind \in AnalysisTypes, delay \in Delays :
          BatchStart(papers, kind, delay)
    \/ BatchItem
    \/ BatchReturn

SpecBatch == InitBatch /\ [][NextBatch]_vars

\* C9: the list batch_analyze returns has one entry for each input paper, in
\* the order of the input, whatever the outcomes of the items and the delay
C9_OneEntryPerPaper ==
    batch.pc = "done" =>
        /\ Len(batch.results) = Len(batch.papers)
        /\ \A i \in 1..Len(batch.papers) :
              (i <= Len(batch.results) /\ HasKey(batch.results[i].kv, "paper_id"))
                 => DictGet(batch.results[i].kv, "paper_id", "")
                       = PaperId(batch.papers[i])

----------------------------------------------------------------------------
(* A put and a get of two processes on one slot.  The put is open(..., 'w'),  *)
(* which truncates, then the writes of json.dump, one token each, then the  *)
(* close; it can stop after any of them.  The get reads the file in two     *)
(* read() calls; the file can change between them.                          *)

\* a process begins at most MaxPuts puts
MaxPuts == 2

RacePayloads ==
    { PyList(<<>>), PyList(<<"a", "b">>), PyList(<<"c", "d">>),
      PyDict(<< <<"k1", "v1">> >>) }

\* open(cache_file, 'w')
RacePutOpen(key, payload) ==
    /\ slot = key
    /\ put.pc = "idle"
    /\ put.n < MaxPuts
    /\ cdisk' = [cdisk EXCEPT ![key] = FileOf(now, <<>>)]
    /\ put' = [put EXCEPT
                 !.pc = "writing", !.key = key, !.text = JsonDump(payload),
                 !.pos = 0, !.val = payload, !.n = @ + 1,
                 !.prev = IF put.n > 0 /\ put.pos = Len(put.text)
                          THEN put.val ELSE PyNone]
    /\ UNCHANGED <<slot, now, adisk, clast, alast, ret, batch, fp, page, cite>>

\* json.dump writes the next piece of the text
RacePutWrite ==
    /\ put.pc = "writing"
    /\ put.pos < Len(put.text)
    /\ cdisk' = [cdisk EXCEPT
                   ![put.key] = FileOf(now, Append(@.data, put.text[put.pos + 1]))]
    /\ put' = [put EXCEPT !.pos = @ + 1]
    /\ UNCHANGED <<slot, now, adisk, clast, alast, ret, batch, fp, page, cite>>

\* the with block closes the file
RacePutClose ==
    /\ put.pc = "writing"
    /\ put.pos = Len(put.text)
    /\ put' = [put EXCEPT !.pc = "idle"]
    /\ UNCHANGED <<slot, now, cdisk, adisk, clast, alast, ret, batch, fp, page, cite>>

\* the writing process is killed, or its write fails
RacePutCrash ==
    /\ put.pc = "writing"
    /\ put' = [put EXCEPT !.pc = "idle"]
    /\ UNCHANGED <<slot, now, cdisk, adisk, clast, alast, ret, batch, fp, page, cite>>

\* _load_from_cache of the other process: exists(), stat(), open() and the
\* first read(), which returns the first i tokens of the file
RaceGetOpen(key, i) ==
    /\ slot = key
    /\ put.rpc = "idle"
    /\ cdisk[key].exists
    /\ put' = [put EXCEPT !.rpc = "reading", !.off = i,
                          !.buf = SubSeq(cdisk[key].data, 1, i),
                          !.snap = cdisk[key].data]
    /\ UNCHANGED <<slot, now, cdisk, adisk, clast, alast, ret, batch, fp, page, cite>>

\* the read() calls up to the end of the file as it is now, then json.load
\* on all that was read
RaceGetFinish ==
    /\ put.rpc = "reading"
    /\ LET data == cdisk[slot].data
           text == put.buf \o SubSeq(data, put.off + 1, Len(data))
           seen == [cdisk EXCEPT ![slot] = FileOf(@.mtime, text)]
           r == CLoad(seen, slot, DefaultMaxAge, now, "ok")
       IN  put' = [put EXCEPT
                     !.rpc = "idle", !.off = 0, !.buf = <<>>, !.snap = <<>>,
                     !.got = [done |-> TRUE, val |-> r.val, exc |-> r.exc,
                              torn |-> data # put.snap,
                              new |-> put.val, old |-> put.prev,
                              whole |-> put.pos = Len(put.text)]]
    /\ UNCHANGED <<slot, now, cdisk, adisk, clast, alast, ret, batch, fp, page, cite>>

InitRace == slot \in CacheKeys /\ now = 0 /\ InitCommon

NextRace ==
    \/ \E key \in CacheKeys, payload \in RacePayloads : RacePutOpen(key, payload)
    \/ RacePutWrite
    \/ RacePutClose
    \/ RacePutCrash
    \/ \E key \in CacheKeys : \E i \in 0..Len(cdisk[key].data) : RaceGetOpen(key, i)
    \/ RaceGetFinish

SpecRace == InitRace /\ [][NextRace]_vars

\* C14 as stated: a get beside a put raises nothing and yields a miss, the
\* payload of the completed put before, or the payload being put
C14_MissOrCompletePayload ==
    put.got.done =>
        /\ put.got.exc = "none"
        /\ put.got.val \in {PyNone, put.got.old, put.got.new}

\* C14, amended: a get raises nothing; and a get during whose reads the file
\* did not change (so every get after an interrupted put) yields a miss, or
\* the payload of the put when all of its text was written
C14_InterruptedPutIsMiss ==
    put.got.done =>
        /\ put.got.exc = "none"
        /\ ~put.got.torn =>
              \/ put.got.val = PyNone
              \/ put.got.whole /\ put.got.val = put.got.new

\* a put stopped in the middle of its text, and the get after it missed
C14_Witness ==
    /\ put.got.done
    /\ ~put.got.torn
    /\ put.got.val = PyNone
    /\ put.pc = "idle"
    /\ put.pos > 0
    /\ put.pos < Len(put.text)
    /\ cdisk[slot].data = SubSeq(put.text, 1, put.pos)

----------------------------------------------------------------------------
(* The fingerprint as a function: keys computed by instances with different *)
(* cache_dir and api_key, at different times, over different cache contents *)

\* (paper, analysis kind) as a request of the analyzer
APair(paper, kind) ==
    [op |-> "analysis", q |-> PaperId(paper), n |-> 0, nofields |-> FALSE,
     fields |-> <<>>, src |-> kind]

\* the requests whose keys are computed
KeyRequests ==
    { SSReqDefault("q", 1), SSReq("q", 1, DefaultFields), SSReq("q", 1, <<"f">>),
      AXReq("q", 2), APair(PaperA, "comprehensive"), APair(PaperB, "mirofish") }

\* the logical request: fields=None stands for the default field list
Logical(r) == [r EXCEPT !.fields = FieldsOf(r), !.nofields = FALSE]

\* the key of a request: the collector's cache_key, or the file name of the
\* analyzer's cache path within its cache_dir
Fingerprint(r) ==
    IF r.op = "analysis" THEN CachePath(r.q, r.src) ELSE KeyOf(r)

\* the instance configurations
Configs ==
    { [cache_dir |-> "./cache", api_key |-> ""],
      [cache_dir |-> "/tmp/c", api_key |-> "secret"] }

\* PaperCollector(cache_dir, api_key) / LLMAnalyzer(api_key, cache_dir=...)
NewInstance(cache_dir, api_key) ==
    /\ fp.cfg # [cache_dir |-> cache_dir, api_key |-> api_key]
    /\ fp' = [fp EXCEPT !.cfg = [cache_dir |-> cache_dir, api_key |-> api_key]]
    /\ UNCHANGED <<slot, now, cdisk, adisk, clast, alast, ret, batch, put, page, cite>>

\* the key of request r is computed by the current instance
ComputeKey(r) ==
    LET k == [valid |-> TRUE, req |-> r, key |-> Fingerprint(r), t |-> now,
              cfg |-> fp.cfg]
    IN  /\ fp' = IF fp.first.valid THEN [fp EXCEPT !.last = k]
                 ELSE [fp EXCEPT !.first = k]
        /\ UNCHANGED <<slot, now, cdisk, adisk, clast, alast, ret, batch, put, page, cite>>

InitKey == slot \in CacheKeys /\ now = 0 /\ InitCommon

NextKey ==
    \/ \E c \in Configs : NewInstance(c.cache_dir, c.api_key)
    \/ \E r \in KeyRequests : ComputeKey(r)
    \/ \E k \in CacheKeys : CachePut(k, PyList(<<"a">>), WriteOk)
    \/ TickStep

SpecKey == InitKey /\ [][NextKey]_vars

\* C15: two computations of the key of the same logical request give the same
\* key, whatever the instance, the time and the cache contents at each
C15_KeyIsPure ==
    ( /\ fp.first.valid
      /\ fp.last.valid
      /\ Logical(fp.first.req) = Logical(fp.last.req) )
        => fp.first.key = fp.last.key

\* fields=None and the default list spelled out, computed by two instances
\* at two times, the cache filled in between
C15_Witness ==
    /\ fp.first.valid
    /\ fp.last.valid
    /\ fp.first.req = SSReqDefault("q", 1)
    /\ fp.last.req = SSReq("q", 1, DefaultFields)
    /\ fp.first.key = fp.last.key
    /\ fp.first.t # fp.last.t
    /\ fp.first.cfg.cache_dir # fp.last.cfg.cache_dir
    /\ fp.first.cfg.api_key # fp.last.cfg.api_key
    /\ cdisk[slot].exists

----------------------------------------------------------------------------
(* The pagination loop of search_semantic_scholar, one iteration a step.    *)
(* Papers are counted: collected is len(all_papers).                        *)

\* limits from -1 to SmallLimit, and from the page cap to PageOver above it
SmallLimit == 3
PageOver == 2

\* the most records one request asks for
PageCap == 100

Limits == ((0 - 1)..SmallLimit) \cup (PageCap..(PageCap + PageOver))

\* a request that asks for the page cap whatever is left to collect
RequestedCap(limit, collected) == PageCap

\* params['limit']
Requested(limit, collected) == Min(PageCap, limit - collected)

\* the number of records a page holds when k were asked for: one, all that
\* were asked for, or one more than that
PageSizes(k) == {1, k, k + 1}

\* the request of one iteration: its parameters, and len(all_papers) when it
\* is sent; out is what came back
PageRequest ==
    [page EXCEPT !.nreq = @ + 1,
                 !.before = page.collected,
                 !.req = [limit |-> Requested(page.limit, page.collected),
                          offset |-> page.offset]]

\* while len(all_papers) < limit
InLoop == page.pc = "loop" /\ page.collected < page.limit

\* the loop condition fails: the loop is left
PageLoopExit ==
    /\ page.pc = "loop"
    /\ ~(page.collected < page.limit)
    /\ page' = [page EXCEPT !.pc = "done"]
    /\ UNCHANGED <<slot, now, cdisk, adisk, clast, alast, ret, batch, put, fp, cite>>

\* the request raises RequestException: break
PageFails ==
    /\ InLoop
    /\ page' = [PageRequest EXCEPT !.pc = "done", !.out = "error"]
    /\ UNCHANGED <<slot, now, cdisk, adisk, clast, alast, ret, batch, put, fp, cite>>

\* the page holds no 'data', or an empty one: break
PageEmpty ==
    /\ InLoop
    /\ page' = [PageRequest EXCEPT !.pc = "done", !.out = "empty"]
    /\ UNCHANGED <<slot, now, cdisk, adisk, clast, alast, ret, batch, put, fp, cite>>

\* the body of the answer is JSON but no object: data.get raises
\* AttributeError, which leaves the method
PageRaises ==
    /\ InLoop
    /\ page' = [PageRequest EXCEPT !.pc = "raised", !.out = "raise"]
    /\ UNCHANGED <<slot, now, cdisk, adisk, clast, alast, ret, batch, put, fp, cite>>

\* the page holds n records: all_papers.extend(papers); offset += len(papers)
PageAppends(n) ==
    /\ InLoop
    /\ n \in PageSizes(Requested(page.limit, page.collected))
    /\ page' = [PageRequest EXCEPT
                  !.out = "page",
                  !.collected = @ + n,
                  !.offset = @ + n,
                  !.over = @ \/ n > Requested(page.limit, page.collected)]
    /\ UNCHANGED <<slot, now, cdisk, adisk, clast, alast, ret, batch, put, fp, cite>>

\* the loop is entered after a cache miss: all_papers = [], offset = 0
InitPages ==
    /\ slot = "*"
    /\ now = 0
    /\ cdisk = [k \in CKeys |-> Absent]
    /\ adisk = [q \in APaths |-> Absent]
    /\ clast = [k \in CKeys |-> NoPut]
    /\ alast = [q \in APaths |-> NoPut]
    /\ ret = NoRet
    /\ batch = NoBatch
    /\ put = NoWrite
    /\ fp = NoKeys
    /\ cite = NoCite
    /\ \E limit \in Limits : page = [NoPages EXCEPT !.pc = "loop", !.limit = limit]

NextPages ==
    \/ PageLoopExit
    \/ PageFails
    \/ PageEmpty
    \/ PageRaises
    \/ \E n \in 1..(PageCap + 1) : PageAppends(n)

\* the interpreter goes on running the loop
SpecPages == InitPages /\ [][NextPages]_vars /\ WF_vars(NextPages)

\* what holds of the loop at every point
PagesSafe ==
    /\ page.nreq >= 1 =>
          /\ page.req.offset = page.before
          /\ page.req.limit >= 1
          /\ page.req.limit <= PageCap
          /\ page.req.limit <= page.limit - page.before
          /\ page.req.limit = PageCap \/ page.req.limit = page.limit - page.before
    /\ page.collected >= page.nreq - 1
    /\ (~page.over /\ page.limit >= 0) =>
          (page.nreq <= page.limit /\ page.collected <= page.limit)
    /\ page.limit < 0 => (page.nreq = 0 /\ page.collected = 0)

\* C18: the loop is left in the end, whatever the limit and the pages; every
\* request asks for min(100, limit - collected) records at offset =
\* collected; every request but the last added a paper; and as long as no
\* page held more than was asked for, there were at most limit requests and
\* at most limit papers
C18_LoopEndsWithinLimit == []PagesSafe /\ <>(page.pc \in {"done", "raised"})

\* the loop was left after as many requests as the limit, one paper a page,
\* with a limit above the page cap
C18_Witness ==
    /\ page.pc = "done"
    /\ page.limit > PageCap
    /\ ~page.over
    /\ page.nreq = page.limit
    /\ page.collected = page.limit

----------------------------------------------------------------------------
(* collect_citation_network, one iteration of its while loop a step.  The   *)
(* citation graph is what get_paper_details answers: as no id is asked for  *)
(* twice, drawing the citation list at each call draws the graph.           *)

\* deepest traversal asked for
MaxDepth == 3

\* at most this many citations of a paper are followed
CiteCap == 10

Ids == {"a", "b", "c"}

\* seed_paper_ids: none, one, one twice, two
SeedLists == {<<>>, <<"a">>, <<"a", "a">>, <<"a", "b">>}

\* a list of one citation more than the cap: the cap times "b", then "c"
LongList == [i \in 1..(CiteCap + 1) |-> IF i <= CiteCap THEN "b" ELSE "c"]

\* paper['citations'] as lists of the cited papers' paperId, "" standing for
\* an entry without one: empty, a self citation, a cycle, a fork, a
\* duplicate, a missing id, more than the cap
CiteLists ==
    { <<>>, <<"a">>, <<"b">>, <<"b", "c">>, <<"c", "a">>, <<"", "b">>,
      <<"a", "a">>, LongList }

\* list[:n]
Take(list, n) == SubSeq(list, 1, Min(n, Len(list)))

\* the entries of a list that have a paperId, in order ('if cited_id')
RECURSIVE WithId(_)
WithId(list) ==
    IF list = <<>> THEN <<>>
    ELSE (IF Head(list) # "" THEN <<Head(list)>> ELSE <<>>) \o WithId(Tail(list))

\* the test that skips an item on its depth alone
SkippedByDepth(item, visited, depth) == item[2] >= depth

\* if paper_id in visited or current_depth >= depth: continue
Skipped(item, visited, depth) == item[1] \in visited \/ item[2] >= depth

\* edges added at every depth that is processed
EmitsAtAnyDepth(current_depth, depth) == current_depth < depth

\* ... and current_depth < depth - 1
Emits(current_depth, depth) == current_depth < depth - 1

\* the cited ids that are followed: the first CiteCap, those with a paperId
Followed(list) == WithId(Take(list, CiteCap))

\* a pop of the item queued last
PopLast(to_visit) ==
    [item |-> to_visit[Len(to_visit)],
     rest |-> SubSeq(to_visit, 1, Len(to_visit) - 1)]

\* to_visit.pop(0): the item taken and the list left
Pop(to_visit) == [item |-> Head(to_visit), rest |-> Tail(to_visit)]

\* the item popped goes on to get_paper_details
Popped ==
    /\ cite.pc = "loop"
    /\ cite.to_visit # <<>>
    /\ ~Skipped(Pop(cite.to_visit).item, cite.visited, cite.depth)

\* the state after to_visit.pop(0), visited.add(paper_id) and the call; calls
\* and depths note the id asked for and the depth it was popped with
AfterCall ==
    [cite EXCEPT !.to_visit = Pop(@).rest,
                 !.visited = @ \cup {Pop(cite.to_visit).item[1]},
                 !.calls = Append(@, Pop(cite.to_visit).item[1]),
                 !.depths = Append(@, Pop(cite.to_visit).item[2])]

\* the popped item is skipped
CiteSkip ==
    /\ cite.pc = "loop"
    /\ cite.to_visit # <<>>
    /\ Skipped(Pop(cite.to_visit).item, cite.visited, cite.depth)
    /\ cite' = [cite EXCEPT !.to_visit = Pop(@).rest, !.out = "skip"]
    /\ UNCHANGED <<slot, now, cdisk, adisk, clast, alast, ret, batch, put, fp, page>>

\* get_paper_details returns None: the request failed
CiteFetchFails ==
    /\ Popped
    /\ cite' = [AfterCall EXCEPT !.allok = FALSE, !.out = "none"]
    /\ UNCHANGED <<slot, now, cdisk, adisk, clast, alast, ret, batch, put, fp, page>>

\* get_paper_details returns an empty value ({} or [], from the API or from
\* the cache): 'if not paper' skips it
CiteFetchEmpty ==
    /\ Popped
    /\ cite' = [AfterCall EXCEPT !.allok = FALSE, !.out = "empty"]
    /\ UNCHANGED <<slot, now, cdisk, adisk, clast, alast, ret, batch, put, fp, page>>

\* get_paper_details raises (a cache file that cannot be read or written),
\* or the paper's 'citations' is no list of objects: the exception leaves
\* collect_citation_network
CiteRaises ==
    /\ Popped
    /\ cite' = [AfterCall EXCEPT !.pc = "raised", !.out = "raise"]
    /\ UNCHANGED <<slot, now, cdisk, adisk, clast, alast, ret, batch, put, fp, page>>

\* get_paper_details returns a paper, with the key 'citations' (haskey) and
\* this list under it, or without; graph notes the list answered
CiteVisit(list, haskey) ==
    /\ Popped
    /\ haskey \/ list = <<>>
    /\ LET paper_id == Pop(cite.to_visit).item[1]
           current_depth == Pop(cite.to_visit).item[2]
           cited == IF haskey /\ Emits(current_depth, cite.depth)
                    THEN Followed(list) ELSE <<>>
       IN  cite' = [AfterCall EXCEPT
                      !.out = "paper",
                      !.papers = @ \cup {paper_id},
                      !.graph = (paper_id :> (IF haskey THEN list ELSE <<>>)) @@ @,
                      !.citations =
                          @ \o [i \in 1..Len(cited) |->
                                  [from |-> paper_id, to |-> cited[i]]],
                      !.to_visit =
                          @ \o [i \in 1..Len(cited) |->
                                  <<cited[i], current_depth + 1>>]]
    /\ UNCHANGED <<slot, now, cdisk, adisk, clast, alast, ret, batch, put, fp, page>>

\* to_visit is empty: the result is built
CiteReturn ==
    /\ cite.pc = "loop"
    /\ cite.to_visit = <<>>
    /\ cite' = [cite EXCEPT
                  !.pc = "done",
                  !.out = "return",
                  !.metadata = [total_papers |-> Cardinality(cite.papers),
                                total_citations |-> Len(cite.citations)]]
    /\ UNCHANGED <<slot, now, cdisk, adisk, clast, alast, ret, batch, put, fp, page>>

\* collect_citation_network(seed_paper_ids, depth) at its while loop
InitCite ==
    /\ slot = "*"
    /\ now = 0
    /\ cdisk = [k \in CKeys |-> Absent]
    /\ adisk = [q \in APaths |-> Absent]
    /\ clast = [k \in CKeys |-> NoPut]
    /\ alast = [q \in APaths |-> NoPut]
    /\ ret = NoRet
    /\ batch = NoBatch
    /\ put = NoWrite
    /\ fp = NoKeys
    /\ page = NoPages
    /\ \E seeds \in SeedLists, depth \in (0 - 1)..MaxDepth :
          cite = [NoCite EXCEPT
                    !.pc = "loop", !.seeds = seeds, !.depth = depth,
                    !.to_visit = [i \in 1..Len(seeds) |-> <<seeds[i], 0>>]]

NextCite ==
    \/ CiteSkip
    \/ CiteFetchFails
    \/ CiteFetchEmpty
    \/ CiteRaises
    \/ \E list \in CiteLists, haskey \in BOOLEAN : CiteVisit(list, haskey)
    \/ CiteReturn

\* the interpreter goes on running the loop
SpecCite == InitCite /\ [][NextCite]_vars /\ WF_vars(NextCite)

\* no id was passed to get_paper_details twice
CalledOnce ==
    \A i, j \in 1..Len(cite.calls) : cite.calls[i] = cite.calls[j] => i = j

\* C19: whatever the seeds, the depth and the citation lists returned (with
\* cycles, self citations, duplicates), the traversal ends, and at no point
\* has get_paper_details been called twice for one paper id
C19_EndsAndFetchesOnce ==
    []CalledOnce /\ <>(cite.pc \in {"done", "raised"})

\* the traversal returned after going round a cycle from a seed given twice,
\* having met ids again that it had visited
C19_Witness ==
    /\ cite.pc = "done"
    /\ cite.seeds = <<"a", "a">>
    /\ cite.papers = Ids
    /\ Len(cite.calls) = Cardinality(Ids)
    /\ \E i \in 1..Len(cite.citations) :
          cite.citations[i] = [from |-> "c", to |-> "a"]

\* C20: in the result of a traversal in which every get_paper_details call
\* returned a paper, both ends of every citation edge are keys of papers;
\* and in every result total_papers and total_citations are the sizes of
\* papers and citations
C20_EdgesClosed ==
    cite.pc = "done" =>
        /\ cite.allok =>
              \A i \in 1..Len(cite.citations) :
                  /\ cite.citations[i].from \in cite.papers
                  /\ cite.citations[i].to \in cite.papers
        /\ cite.metadata.total_papers = Cardinality(cite.papers)
        /\ cite.metadata.total_citations = Len(cite.citations)

\* a result with every call answered, in which a paper cites one that was
\* visited before it, and one entry beyond the cap was left out
C20_Witness ==
    /\ cite.pc = "done"
    /\ cite.allok
    /\ cite.papers = {"a", "b"}
    /\ cite.metadata.total_citations = CiteCap + 1
    /\ cite.citations[Len(cite.citations)] = [from |-> "b", to |-> "a"]

\* the ids a paper cites as far as they are followed, by the list that
\* get_paper_details answered for it
Cited(id) ==
    IF id \in DOMAIN cite.graph
    THEN {Followed(cite.graph[id])[j] : j \in 1..Len(Followed(cite.graph[id]))}
    ELSE {}

\* a set of ids and the ids they cite
Expand(ids) == ids \cup UNION {Cited(id) : id \in ids}

\* the ids within k citation steps of a seed
RECURSIVE Within(_)
Within(k) ==
    IF k = 0 THEN {cite.seeds[i] : i \in 1..Len(cite.seeds)}
    ELSE Expand(Within(k - 1))

\* the same for every k up to the number of ids, beyond which nothing is
\* added
Levels == [k \in 0..Cardinality(Ids) |-> Within(k)]

\* a distance no id has
Far == MaxDepth + Cardinality(Ids) + 1

\* the breadth-first distance of an id from the seeds, by the levels
Distance(levels, id) ==
    IF id \in levels[Cardinality(Ids)]
    THEN CHOOSE k \in 0..Cardinality(Ids) :
            id \in levels[k] /\ \A j \in 0..(k - 1) : id \notin levels[j]
    ELSE Far

\* C21: every id passed to get_paper_details was popped with a depth that is
\* its breadth-first distance from the seeds (over the first CiteCap
\* citations of each paper) and that is less than depth; every key of papers
\* is nearer than depth; every citation edge starts at a paper nearer than
\* depth - 1; and with depth <= 0 nothing is fetched and papers and
\* citations stay empty
C21_DepthBound ==
    \E levels \in {Levels} :
        /\ \A i \in 1..Len(cite.calls) :
              /\ cite.depths[i] = Distance(levels, cite.calls[i])
              /\ cite.depths[i] < cite.depth
        /\ \A id \in cite.papers : Distance(levels, id) < cite.depth
        /\ \A i \in 1..Len(cite.citations) :
              Distance(levels, cite.citations[i].from) < cite.depth - 1
        /\ cite.depth <= 0 =>
              (cite.calls = <<>> /\ cite.papers = {} /\ cite.citations = <<>>)

\* a result in which a paper at the last depth allowed was fetched, its own
\* citations left alone, after it had been queued a second time at a greater
\* depth
C21_Witness ==
    /\ cite.pc = "done"
    /\ cite.depth = MaxDepth
    /\ cite.seeds = <<"a">>
    /\ cite.calls = <<"a", "b", "c">>
    /\ cite.depths = <<0, 1, 2>>
    /\ Cited("c") # {}
    /\ \A i \in 1..Len(cite.citations) : cite.citations[i].from # "c"

====
